---- MODULE Spec2Model ----
\* A model of the retrieval-augmented chat service: the chunker and the
\* document processor of document_processor.py, and the chat handlers of
\* main.py.
EXTENDS Integers, Sequences, FiniteSets, TLC

VARIABLES
    \* chunk_text, one call, statement by statement
    text, chunk_size, overlap, pc, start, chunks, offsets,
    \* DocumentProcessor and the documents directory
    directory, document_metadata, metadata_file, collection, call,
    \* main.py
    conversation_history, last_chat

chunkVars == <<text, chunk_size, overlap, pc, start, chunks, offsets>>
docVars == <<directory, document_metadata, metadata_file, collection, call>>
chatVars == <<conversation_history, last_chat>>
vars == <<chunkVars, docVars, chatVars>>

\* ------------------------------------------------------------------ bounds
MaxLen == 5
MaxChunkSize == 4
ScenarioLen == 2500

\* ------------------------------------------------------- program constants
DefaultChunkSize == 1000
DefaultOverlap == 200

\* ----------------------------------------------------------------- helpers
Min(a, b) == IF a < b THEN a ELSE b
Max(a, b) == IF a < b THEN b ELSE a

\* Python's clamping of one slice bound i against a sequence of length n
SliceBound(i, n) == IF i < 0 THEN Max(i + n, 0) ELSE Min(i, n)

\* Python's s[lo:hi]
Slice(s, lo, hi) ==
    LET l == SliceBound(lo, Len(s))
        h == SliceBound(hi, Len(s))
    IN  IF l < h THEN SubSeq(s, l + 1, h) ELSE <<>>

\* Python's s[lo:]
SliceFrom(s, lo) == Slice(s, lo, Len(s))

Repeat(c, n) == [i \in 1..n |-> c]

\* -------------------------------------------------------------- chunk_text
\* end = start + chunk_size
WindowEnd(s, cs) == s + cs

\* two slips in the advance of start: one character too far, and one short
\* of the step
AdvanceOffByOne(e, ov) == (e - ov) + 1
AdvanceStalls(e, ov) == IF ov > 0 THEN (e - ov) - 1 ELSE e - ov
\* start = end - overlap
Advance(e, ov) == e - ov

\* while start < len(text)
LoopGuard(s, cs, t) == s < Len(t)

RECURSIVE chunk_loop(_, _, _, _, _)
chunk_loop(t, cs, ov, s, acc) ==
    IF LoopGuard(s, cs, t)
    THEN chunk_loop(t, cs, ov, Advance(WindowEnd(s, cs), ov),
                    Append(acc, Slice(t, s, WindowEnd(s, cs))))
    ELSE acc

\* chunk_text as a function of its arguments (only for overlap < chunk_size)
chunk_text(t, cs, ov) ==
    IF Len(t) <= cs THEN <<t>> ELSE chunk_loop(t, cs, ov, 0, <<>>)

\* every text over {a, b} of length at most MaxLen
Texts == UNION {[1..n -> {"a", "b"}] : n \in 0..MaxLen}

\* an iteration cap for the calls that never return; no returning call has
\* more than max(len(text), 1) iterations
MaxIter == MaxLen + 2

Scenario == <<Repeat("a", ScenarioLen), DefaultChunkSize, DefaultOverlap>>

ChunkInputs ==
    (Texts \X (0..MaxChunkSize) \X (-1..MaxChunkSize + 1)) \cup {Scenario}

\* if len(text) <= chunk_size: return [text]; else chunks = [], start = 0
ChunkEntry ==
    /\ pc = "entry"
    /\ IF Len(text) <= chunk_size
       THEN /\ chunks' = <<text>>
            /\ offsets' = <<0>>
            /\ pc' = "done"
       ELSE /\ chunks' = <<>>
            /\ offsets' = <<>>
            /\ pc' = "loop"
    /\ start' = 0
    /\ UNCHANGED <<text, chunk_size, overlap, docVars, chatVars>>

\* one iteration of the while loop
ChunkIter ==
    /\ pc = "loop"
    /\ LoopGuard(start, chunk_size, text)
    /\ Len(chunks) < MaxIter
    /\ chunks' = Append(chunks, Slice(text, start, WindowEnd(start, chunk_size)))
    /\ offsets' = Append(offsets, start)
    /\ start' = Advance(WindowEnd(start, chunk_size), overlap)
    /\ UNCHANGED <<text, chunk_size, overlap, pc, docVars, chatVars>>

\* the loop condition is false: return chunks
ChunkReturn ==
    /\ pc = "loop"
    /\ ~LoopGuard(start, chunk_size, text)
    /\ pc' = "done"
    /\ UNCHANGED <<text, chunk_size, overlap, start, chunks, offsets,
                   docVars, chatVars>>

ChunkNext == ChunkEntry \/ ChunkIter \/ ChunkReturn

\* ------------------------------------------------------ DocumentProcessor
\* lengths of the two document bodies the model uploads
LongLen == 1700
ShortLen == 900

FileNames == {"a.txt", "B.PDF", "d.csv"}

\* os.path.splitext(file_name)[1].lower()
FileExt(f) ==
    CASE f = "a.txt" -> ".txt"
      [] f = "B.PDF" -> ".pdf"
      [] OTHER -> ".csv"

\* what a file may hold: a long body, a short body, white space only, or
\* bytes its parser cannot read
Contents == {"long", "short", "blank", "corrupt"}

\* the contents the model writes to each file name
ContentsOf(f) ==
    CASE f = "a.txt" -> {"long", "short", "blank"}
      [] f = "B.PDF" -> {"short", "corrupt"}
      [] OTHER -> {"short"}

\* hashlib.md5(f.read()).hexdigest(): equal exactly for equal bytes
get_file_hash(c) == <<"md5", c>>

\* os.path.getsize
FileSize(c) ==
    CASE c = "long" -> LongLen + 1
      [] c = "short" -> ShortLen + 1
      [] c = "blank" -> 2
      [] OTHER -> 7

IsSpace(ch) == ch \in {" ", "\n"}

\* str.strip()
RECURSIVE LStrip(_)
LStrip(s) == IF s # <<>> /\ IsSpace(Head(s)) THEN LStrip(Tail(s)) ELSE s
RECURSIVE RStrip(_)
RStrip(s) ==
    IF s # <<>> /\ IsSpace(s[Len(s)]) THEN RStrip(SubSeq(s, 1, Len(s) - 1)) ELSE s
Strip(s) == RStrip(LStrip(s))

\* the characters the parser reads before strip(); a parser that raises
\* has its exception caught and "" returned
ParsedText(c) ==
    CASE c = "long" -> Repeat("x", LongLen) \o <<"\n">>
      [] c = "short" -> Repeat("y", ShortLen) \o <<"\n">>
      [] c = "blank" -> <<" ", "\n">>
      [] OTHER -> <<>>

\* extract_text_from_pdf / _docx / _txt
extract_text(c) == IF c = "corrupt" THEN <<>> ELSE Strip(ParsedText(c))

SupportedExt == {".pdf", ".docx", ".txt"}

\* extract_text and chunk_text of each content, computed once
ExtractedText == [c \in Contents |-> extract_text(c)]
DocumentChunks ==
    [c \in Contents |->
        IF Strip(extract_text(c)) = <<>> THEN <<>>
        ELSE chunk_text(extract_text(c), DefaultChunkSize, DefaultOverlap)]

\* embedding_model.encode: a deterministic function of the chunk text
Embed(t) == <<Len(t), IF t = <<>> THEN "" ELSE t[1]>>

\* datetime.now().isoformat(): one instant stands for every time of
\* processing, nothing in the program reads the dates back
Dates == {"t1"}

\* failures of the collaborators during one process_document call
Faults == {"none", "embed", "store", "save"}

EmptyMap == [x \in {} |-> x]

\* m with key k set to v (dict assignment)
Put(m, k, v) == [x \in DOMAIN m \cup {k} |-> IF x = k THEN v ELSE m[x]]

\* f"{file_name}_{i}": distinct for distinct (file_name, i)
ChunkId(f, i) == <<f, i>>

\* the records process_document builds for the chunks of one file
ChunkRecords(f, cks, now) ==
    [id \in {ChunkId(f, i) : i \in 0..Len(cks) - 1} |->
        [document |-> cks[id[2] + 1],
         embedding |-> Embed(cks[id[2] + 1]),
         metadata |-> [file_name |-> f,
                       chunk_index |-> id[2],
                       total_chunks |-> Len(cks),
                       file_type |-> FileExt(f),
                       processed_date |-> now]]]

\* collection.add: a record whose id the collection already holds is
\* skipped, the stored one is kept; the others are inserted
CollectionAdd(coll, recs) ==
    [id \in DOMAIN coll \cup DOMAIN recs |->
        IF id \in DOMAIN coll THEN coll[id] ELSE recs[id]]

\* what save_metadata may leave in the file when it raises: open() failed
\* and the file is as before, or the write stopped after truncating it
FailedSaveOutcomes(old) == {old, [ok |-> FALSE, data |-> EmptyMap]}

\* the result of one process_document call: its return value, whether an
\* exception left it, the state it leaves and whether encode() was called
Outcome(ret, raised, meta, file, coll, embedded) ==
    [ret |-> ret, raised |-> raised, document_metadata |-> meta,
     metadata_file |-> file, collection |-> coll, embedded |-> embedded]

\* the record process_document writes for a file
MetadataRecord(f, c, cks, now) ==
    [hash |-> get_file_hash(c),
     processed_date |-> now,
     total_chunks |-> Len(cks),
     file_type |-> FileExt(f),
     file_size |-> FileSize(c)]

\* a skip test that forgets the hash
AlreadyProcessedByNameAlone(f, c, meta) == f \in DOMAIN meta
\* if file_name in self.document_metadata and its hash == file_hash
AlreadyProcessed(f, c, meta) ==
    /\ f \in DOMAIN meta
    /\ meta[f].hash = get_file_hash(c)

\* the body of process_document's try block. c is the file's content, fault
\* the collaborator that fails in this call, failedFile what a failing save
\* leaves in the metadata file
process_document_body(f, c, meta, file, coll, fault, now, failedFile) ==
    IF AlreadyProcessed(f, c, meta)
    THEN Outcome(TRUE, FALSE, meta, file, coll, FALSE)
    ELSE IF FileExt(f) \notin SupportedExt
    THEN Outcome(FALSE, FALSE, meta, file, coll, FALSE)
    ELSE LET txt == ExtractedText[c] IN
    IF Strip(txt) = <<>>
    THEN Outcome(FALSE, FALSE, meta, file, coll, FALSE)
    ELSE LET cks == DocumentChunks[c] IN
    IF fault = "embed"
    THEN Outcome(FALSE, TRUE, meta, file, coll, TRUE)
    ELSE IF fault = "store"
    THEN Outcome(FALSE, TRUE, meta, file, coll, TRUE)
    ELSE LET coll2 == CollectionAdd(coll, ChunkRecords(f, cks, now))
             meta2 == Put(meta, f, MetadataRecord(f, c, cks, now))
         IN  IF fault = "save"
             THEN Outcome(FALSE, TRUE, meta2, failedFile, coll2, TRUE)
             ELSE Outcome(TRUE, FALSE, meta2, [ok |-> TRUE, data |-> meta2],
                          coll2, TRUE)

\* process_document without its except clause
process_document_propagates(f, c, meta, file, coll, fault, now, failedFile) ==
    process_document_body(f, c, meta, file, coll, fault, now, failedFile)
\* process_document: except Exception: return False
process_document(f, c, meta, file, coll, fault, now, failedFile) ==
    LET r == process_document_body(f, c, meta, file, coll, fault, now, failedFile)
    IN  IF r.raised THEN [r EXCEPT !.raised = FALSE, !.ret = FALSE] ELSE r

\* the files whose processing reaches the collaborators, where a fault can
\* strike
ReachesCollaborators(f, c, meta) ==
    /\ ~AlreadyProcessed(f, c, meta)
    /\ FileExt(f) \in SupportedExt
    /\ Strip(ExtractedText[c]) # <<>>

\* every order in which os.listdir may return the names in S
Orders(S) ==
    {o \in [1..Cardinality(S) -> S] : \A i, j \in DOMAIN o : i # j => o[i] # o[j]}

\* the loop of process_all_documents over the names order[i..], from the
\* state st = [document_metadata, metadata_file, collection, results,
\* embedded, raised]
RECURSIVE process_all_from(_, _, _, _, _, _, _)
process_all_from(order, i, dir, st, faults, now, failedFile) ==
    IF i > Len(order) \/ st.raised
    THEN st
    ELSE LET f == order[i]
             r == process_document(f, dir[f], st.document_metadata,
                                   st.metadata_file, st.collection,
                                   IF f \in DOMAIN faults THEN faults[f] ELSE "none",
                                   now, failedFile)
         IN  process_all_from(order, i + 1, dir,
                 [document_metadata |-> r.document_metadata,
                  metadata_file |-> r.metadata_file,
                  collection |-> r.collection,
                  results |-> IF r.raised THEN st.results
                              ELSE Put(st.results, f, r.ret),
                  embedded |-> IF r.embedded THEN st.embedded \cup {f}
                               ELSE st.embedded,
                  raised |-> r.raised],
                 faults, now, failedFile)

NoCall ==
    [op |-> "none", file |-> "", ret |-> FALSE,
     results |-> EmptyMap, embedded |-> {}, faults |-> EmptyMap]

\* POST /api/documents/upload with file name f and content c
upload_document(f, c) ==
    \E fault \in Faults, now \in Dates,
       failedFile \in FailedSaveOutcomes(metadata_file) :
        LET r == process_document(f, c, document_metadata, metadata_file,
                                  collection, fault, now, failedFile)
        IN  /\ fault # "none" => ReachesCollaborators(f, c, document_metadata)
            /\ fault # "save" => failedFile = metadata_file
            /\ directory' = Put(directory, f, c)
            /\ document_metadata' = r.document_metadata
            /\ metadata_file' = r.metadata_file
            /\ collection' = r.collection
            /\ call' = [op |-> "upload", file |-> f,
                        ret |-> ~r.raised /\ r.ret, results |-> EmptyMap,
                        embedded |-> IF r.embedded THEN {f} ELSE {},
                        faults |-> Put(EmptyMap, f, fault)]
            /\ UNCHANGED <<chunkVars, chatVars>>

\* POST /api/documents/upload without a file, or with an empty file name
upload_nothing ==
    /\ call' = [NoCall EXCEPT !.op = "upload"]
    /\ UNCHANGED <<directory, document_metadata, metadata_file, collection,
                   chunkVars, chatVars>>

\* POST /api/documents/process
process_all_documents ==
    \E order \in Orders(DOMAIN directory), now \in Dates,
       failedFile \in FailedSaveOutcomes(metadata_file) :
    \E faults \in [{f \in DOMAIN directory :
                      ReachesCollaborators(f, directory[f], document_metadata)}
                   -> Faults] :
        LET st == process_all_from(order, 1, directory,
                      [document_metadata |-> document_metadata,
                       metadata_file |-> metadata_file,
                       collection |-> collection,
                       results |-> EmptyMap, embedded |-> {},
                       raised |-> FALSE],
                      faults, now, failedFile)
        IN  /\ (\A f \in DOMAIN faults : faults[f] # "save")
                    => failedFile = metadata_file
            /\ document_metadata' = st.document_metadata
            /\ metadata_file' = st.metadata_file
            /\ collection' = st.collection
            /\ call' = [op |-> "process_all", file |-> "",
                        ret |-> ~st.raised,
                        results |-> IF st.raised THEN EmptyMap ELSE st.results,
                        embedded |-> st.embedded, faults |-> faults]
            /\ UNCHANGED <<directory, chunkVars, chatVars>>

\* load_metadata: a missing or unreadable file gives {}
load_metadata(file) == IF file.ok THEN file.data ELSE EmptyMap

\* the process is started again: DocumentProcessor.__init__ opens the
\* persistent collection as it is on disk and loads the metadata file
Restart ==
    /\ document_metadata' = load_metadata(metadata_file)
    /\ call' = [NoCall EXCEPT !.op = "restart"]
    /\ UNCHANGED <<directory, metadata_file, collection, chunkVars, chatVars>>

\* ------------------------------------------------------------------ main.py
MaxHistory == 4
ChatResults == 3

\* request bodies: the 'message' field as typed
Messages == {<<>>, <<" ">>, <<"h", "i">>, <<" ", "y", "o", "u", "\n">>}

\* what the language model may answer
Replies == {<<"o", "k">>}

\* openai.ChatCompletion.create returns a reply or raises
LlmOutcomes ==
    {[ok |-> FALSE, reply |-> <<>>]} \cup {[ok |-> TRUE, reply |-> x] : x \in Replies}

\* failures of the collaborators during one search_documents call
SearchFaults == {"none", "embed", "query"}

\* the configured cosine distance between two embeddings, as some fixed
\* function of them
Distance(qv, ev) == IF qv[1] < ev[1] THEN ev[1] - qv[1] ELSE qv[1] - ev[1]

\* collection.query: every ranking of the n nearest records the store may
\* return (fewer when it holds fewer), nearest first, ties in any order
QueryRankings(coll, qv, n) ==
    LET k == Min(n, Cardinality(DOMAIN coll))
        d(id) == Distance(qv, coll[id].embedding)
    IN  {r \in [1..k -> DOMAIN coll] :
            /\ \A i, j \in 1..k : i # j => r[i] # r[j]
            /\ \A i, j \in 1..k : i < j => d(r[i]) <= d(r[j])
            /\ \A id \in DOMAIN coll :
                  (\A i \in 1..k : r[i] # id) => \A i \in 1..k : d(r[i]) <= d(id)}

\* the formatted results of one ranking
FormatResults(coll, qv, r) ==
    [i \in 1..Len(r) |->
        [content |-> coll[r[i]].document,
         metadata |-> coll[r[i]].metadata,
         distance |-> Distance(qv, coll[r[i]].embedding)]]

\* the body of search_documents' try block: fault is the collaborator that
\* fails, emptyRaises whether the store raises when asked to query an empty
\* collection, r the ranking the store returns
search_documents_body(query, coll, fault, emptyRaises, r) ==
    IF fault = "embed" \/ fault = "query"
    THEN [raised |-> TRUE, results |-> <<>>]
    ELSE IF DOMAIN coll = {} /\ emptyRaises
    THEN [raised |-> TRUE, results |-> <<>>]
    ELSE [raised |-> FALSE, results |-> FormatResults(coll, Embed(query), r)]

\* search_documents without its except clause
search_documents_propagates(query, coll, fault, emptyRaises, r) ==
    search_documents_body(query, coll, fault, emptyRaises, r)
\* search_documents: except Exception: return []
search_documents(query, coll, fault, emptyRaises, r) ==
    LET res == search_documents_body(query, coll, fault, emptyRaises, r)
    IN  IF res.raised THEN [raised |-> FALSE, results |-> <<>>] ELSE res

\* the context chat builds from the relevant documents: per source its
\* file name and the first 300 characters of its content
Context(docs) ==
    [i \in 1..Len(docs) |->
        [source |-> i,
         file_name |-> docs[i].metadata.file_name,
         excerpt |-> Slice(docs[i].content, 0, 300)]]

\* enhanced_message: the user message, under the context when there is one
EnhancedMessage(user_message, docs) ==
    [context |-> Context(docs), question |-> user_message]

SystemMessage ==
    [role |-> "system",
     content |-> [context |-> <<>>, question |-> <<"s", "y", "s">>]]

NoChatCall ==
    [op |-> "none", status |-> 0, user_message |-> <<>>, search_fault |-> "none",
     index_empty |-> FALSE, relevant_docs |-> 0, llm_called |-> FALSE,
     llm_last |-> SystemMessage]

\* POST /api/chat with the message msg
chat(msg) ==
    LET user_message == Strip(msg) IN
    IF user_message = <<>>
    THEN /\ last_chat' = [NoChatCall EXCEPT !.op = "chat", !.status = 400]
         /\ UNCHANGED <<conversation_history, chunkVars, docVars>>
    ELSE
    \E fault \in SearchFaults, emptyRaises \in BOOLEAN,
       r \in QueryRankings(collection, Embed(user_message), ChatResults),
       llm \in LlmOutcomes :
        LET found == search_documents(user_message, collection, fault,
                                      emptyRaises, r)
            asked == [role |-> "user",
                      content |-> EnhancedMessage(user_message, found.results)]
            this == [NoChatCall EXCEPT !.op = "chat",
                                       !.user_message = user_message,
                                       !.search_fault = fault,
                                       !.index_empty = (DOMAIN collection = {}),
                                       !.relevant_docs = Len(found.results)]
        IN  /\ Len(conversation_history) < MaxHistory
            /\ emptyRaises => DOMAIN collection = {}
            /\ IF found.raised
               THEN /\ conversation_history' = conversation_history
                    /\ last_chat' = [this EXCEPT !.status = 500]
               ELSE IF ~llm.ok
               THEN /\ conversation_history' = Append(conversation_history, asked)
                    /\ last_chat' = [this EXCEPT !.status = 500,
                                                 !.llm_called = TRUE,
                                                 !.llm_last = asked]
               ELSE /\ conversation_history' =
                        conversation_history \o
                            <<asked, [role |-> "assistant",
                                      content |-> [context |-> <<>>,
                                                   question |-> llm.reply]]>>
                    /\ last_chat' = [this EXCEPT !.status = 200,
                                                 !.llm_called = TRUE,
                                                 !.llm_last = asked]
            /\ UNCHANGED <<chunkVars, docVars>>

\* POST /api/clear
clear_chat ==
    /\ conversation_history' = <<SystemMessage>>
    /\ last_chat' = [NoChatCall EXCEPT !.op = "clear", !.status = 200]
    /\ UNCHANGED <<chunkVars, docVars>>

NoChunkCall ==
    /\ text = <<>> /\ chunk_size = DefaultChunkSize /\ overlap = DefaultOverlap
    /\ pc = "idle" /\ start = 0 /\ chunks = <<>> /\ offsets = <<>>

NoChat ==
    /\ conversation_history = <<SystemMessage>>
    /\ last_chat = NoChatCall

\* a fresh installation: no documents, no metadata file, an empty collection
Init ==
    /\ directory = EmptyMap
    /\ document_metadata = EmptyMap
    /\ metadata_file = [ok |-> FALSE, data |-> EmptyMap]
    /\ collection = EmptyMap
    /\ call = NoCall
    /\ NoChunkCall
    /\ NoChat

Next ==
    \/ \E f \in FileNames : \E c \in ContentsOf(f) : upload_document(f, c)
    \/ upload_nothing
    \/ process_all_documents
    \/ Restart

Spec == Init /\ [][Next]_vars

ChunkInit ==
    /\ \E in \in ChunkInputs :
        /\ text = in[1]
        /\ chunk_size = in[2]
        /\ overlap = in[3]
    /\ pc = "entry" /\ start = 0 /\ chunks = <<>> /\ offsets = <<>>
    /\ directory = EmptyMap
    /\ document_metadata = EmptyMap
    /\ metadata_file = [ok |-> FALSE, data |-> EmptyMap]
    /\ collection = EmptyMap
    /\ call = NoCall
    /\ NoChat

ChunkSpec == ChunkInit /\ [][ChunkNext]_vars

ChunkFairSpec == ChunkSpec /\ WF_vars(ChunkNext)

\* the documents directories a previous run of the service may have indexed
IndexedBefore ==
    {EmptyMap,
     Put(EmptyMap, "B.PDF", "short"),
     Put(Put(EmptyMap, "a.txt", "long"), "B.PDF", "short")}

\* the service starts over what a previous run left on disk
ChatInit ==
    /\ \E dir \in IndexedBefore : \E order \in Orders(DOMAIN dir) :
        LET st == process_all_from(order, 1, dir,
                      [document_metadata |-> EmptyMap,
                       metadata_file |-> [ok |-> FALSE, data |-> EmptyMap],
                       collection |-> EmptyMap,
                       results |-> EmptyMap, embedded |-> {},
                       raised |-> FALSE],
                      EmptyMap, "t1", [ok |-> FALSE, data |-> EmptyMap])
        IN  /\ directory = dir
            /\ document_metadata = load_metadata(st.metadata_file)
            /\ metadata_file = st.metadata_file
            /\ collection = st.collection
    /\ call = NoCall
    /\ NoChunkCall
    /\ NoChat

ChatNext ==
    \/ \E msg \in Messages : chat(msg)
    \/ clear_chat

ChatSpec == ChatInit /\ [][ChatNext]_vars

\* ------------------------------------------------------------------ claims
\* the statement-by-statement call and the function chunk_text agree
ChunkTextAgrees ==
    (pc = "done" /\ overlap < chunk_size)
    => chunks = chunk_text(text, chunk_size, overlap)

InScenario ==
    /\ text = Repeat("a", ScenarioLen)
    /\ chunk_size = DefaultChunkSize
    /\ overlap = DefaultOverlap

\* C5: chunking 2500 characters with chunk_size 1000 and overlap 200 gives
\* the windows at 0, 800 and 1600, the third being text[1600:2500] and the
\* last; in general the window that first reaches the end of the text is the
\* last one, so that only the final window is shorter than chunk_size.
C5_FinalWindowEndsChunking ==
    (pc = "done" /\ Len(text) > chunk_size /\ 0 <= overlap /\ overlap < chunk_size)
    => /\ InScenario =>
            /\ offsets = <<0, 800, 1600>>
            /\ Len(chunks) = 3
            /\ chunks[3] = Slice(text, 1600, ScenarioLen)
       /\ \A i \in 1..Len(chunks) - 1 :
            /\ Len(chunks[i]) = chunk_size
            /\ offsets[i] + chunk_size < Len(text)

\* the last k characters of s, the first k characters of s
Suffix(s, k) == SubSeq(s, Len(s) - k + 1, Len(s))
Prefix(s, k) == SubSeq(s, 1, k)

\* chunks i and i + 1 share exactly ov characters: the windows overlap by ov
\* positions, and the tail of the earlier is the head of the later
SharesExactly(i, ov) ==
    /\ Len(chunks[i]) >= ov
    /\ Len(chunks[i + 1]) >= ov
    /\ Suffix(chunks[i], ov) = Prefix(chunks[i + 1], ov)
    /\ (offsets[i] + Len(chunks[i])) - offsets[i + 1] = ov

\* C6: for len(text) > chunk_size and 0 <= overlap < chunk_size, every pair
\* of consecutive chunks but possibly the last pair shares exactly overlap
\* characters.
C6_ConsecutiveChunksOverlap ==
    (pc = "done" /\ Len(text) > chunk_size /\ 0 <= overlap /\ overlap < chunk_size)
    => \A i \in 1..Len(chunks) - 2 : SharesExactly(i, overlap)

\* the first chunk followed by every later chunk without its first ov
\* characters
RECURSIVE Reassemble(_, _)
Reassemble(cks, ov) ==
    IF Len(cks) = 1 THEN cks[1]
    ELSE Reassemble(SubSeq(cks, 1, Len(cks) - 1), ov)
            \o SliceFrom(cks[Len(cks)], ov)

\* C7: for 0 <= overlap < chunk_size chunk_text loses and reorders nothing:
\* a text no longer than chunk_size comes back as the one chunk, and
\* otherwise the first chunk followed by the later chunks without their
\* first overlap characters is the text.
C7_ChunksReassembleText ==
    (pc = "done" /\ 0 <= overlap /\ overlap < chunk_size)
    => /\ Len(text) <= chunk_size => chunks = <<text>>
       /\ Len(text) > chunk_size =>
            /\ chunks # <<>>
            /\ Reassemble(chunks, overlap) = text

C7_Witness ==
    /\ pc = "done"
    /\ 0 < overlap /\ overlap < chunk_size
    /\ Len(chunks) >= 3
    /\ \E i, j \in DOMAIN text : text[i] # text[j]

\* C8: with overlap < chunk_size every call returns, the start offset
\* growing by chunk_size - overlap in every iteration; with
\* overlap >= chunk_size and len(text) > chunk_size the start offset never
\* advances, the loop condition stays true and the call never returns.
C8_TerminatesIffOverlapSmaller ==
    /\ [](overlap < chunk_size => <>(pc = "done"))
    /\ [][(pc = "loop" /\ pc' = "loop" /\ start' # start /\ overlap < chunk_size)
            => (start' = start + (chunk_size - overlap) /\ start' > start)]_vars
    /\ []((overlap >= chunk_size /\ Len(text) > chunk_size)
            => (pc # "done" /\ start <= 0 /\ start < Len(text)))

C8_Witness ==
    /\ pc = "done"
    /\ overlap < chunk_size
    /\ Len(text) > chunk_size
    /\ Len(chunks) >= 4

\* the chunk texts the collection holds under the ids of file f
StoredDocuments(coll, f) ==
    [id \in {x \in DOMAIN coll : x[1] = f} |-> coll[id].document]

\* the chunk texts of content c under the ids of file f
FreshDocuments(f, c) ==
    [id \in {ChunkId(f, i) : i \in 0..Len(DocumentChunks[c]) - 1} |->
        DocumentChunks[c][id[2] + 1]]

\* C1: when a file that was indexed before is processed again with changed
\* content and the call succeeds, the collection holds for that file name
\* the chunks of the new version and nothing else.
C1_ReprocessingReplacesChunks ==
    [][\A f \in FileNames :
        (/\ call'.op = "upload" /\ call'.file = f /\ call'.ret
         /\ f \in DOMAIN document_metadata
         /\ document_metadata[f].hash # get_file_hash(directory'[f]))
        => StoredDocuments(collection', f) = FreshDocuments(f, directory'[f])]_vars

\* C2: process_document on a file whose record holds the hash of its
\* current content returns True, calls no embedding and leaves the
\* collection, the metadata mapping and the metadata file as they were; a
\* file with no record, or with another hash, is not skipped.
C2_UnchangedFileIsSkipped ==
    [][/\ \A f \in FileNames :
            (call'.op = "upload" /\ call'.file = f) =>
                IF /\ f \in DOMAIN document_metadata
                   /\ document_metadata[f].hash = get_file_hash(directory'[f])
                THEN /\ call'.ret
                     /\ call'.embedded = {}
                     /\ collection' = collection
                     /\ document_metadata' = document_metadata
                     /\ metadata_file' = metadata_file
                ELSE (/\ FileExt(f) \in SupportedExt
                      /\ Strip(ExtractedText[directory'[f]]) # <<>>)
                     => call'.embedded = {f}
       /\ call'.op = "process_all" =>
            \A f \in DOMAIN directory :
                IF /\ f \in DOMAIN document_metadata
                   /\ document_metadata[f].hash = get_file_hash(directory[f])
                THEN /\ call'.results[f]
                     /\ f \notin call'.embedded
                     /\ document_metadata'[f] = document_metadata[f]
                     /\ StoredDocuments(collection', f) = StoredDocuments(collection, f)
                ELSE (/\ FileExt(f) \in SupportedExt
                      /\ Strip(ExtractedText[directory[f]]) # <<>>)
                     => f \in call'.embedded]_vars

C2_Witness ==
    /\ call.op = "upload"
    /\ call.file \in DOMAIN document_metadata
    /\ document_metadata[call.file].hash = get_file_hash(directory[call.file])
    /\ call.ret
    /\ call.embedded = {}
    /\ StoredDocuments(collection, call.file) # EmptyMap

\* the fault that strikes file f in the last batch
FaultOn(c, f) == IF f \in DOMAIN c.faults THEN c.faults[f] ELSE "none"

\* C3: process_all_documents returns one boolean per file of the directory:
\* no failure leaves process_document as an exception, a file that fails is
\* reported False, and every other file is processed and reported True.
C3_BatchReportsEveryFile ==
    [][call'.op = "process_all" =>
        /\ call'.ret
        /\ DOMAIN call'.results = DOMAIN directory
        /\ \A f \in DOMAIN directory :
            LET known == /\ f \in DOMAIN document_metadata
                         /\ document_metadata[f].hash = get_file_hash(directory[f])
                usable == /\ FileExt(f) \in SupportedExt
                          /\ Strip(ExtractedText[directory[f]]) # <<>>
            IN  /\ call'.results[f] \in BOOLEAN
                /\ call'.results[f] =
                        (known \/ (usable /\ FaultOn(call', f) = "none"))
                /\ call'.results[f] =>
                        /\ f \in DOMAIN document_metadata'
                        /\ document_metadata'[f].hash = get_file_hash(directory[f])]_vars

C3_Witness ==
    /\ call.op = "process_all"
    /\ Cardinality(DOMAIN call.results) = 3
    /\ \E f, g, h \in DOMAIN call.results :
        /\ f # g /\ g # h /\ f # h
        /\ FaultOn(call, f) = "embed" /\ ~call.results[f]
        /\ g \in call.embedded /\ call.results[g]
        /\ ~call.results[h]

\* C9: a process_document call that returns False leaves the collection and
\* the metadata mapping as they were.
C9_FailureChangesNothing ==
    [][(call'.op = "upload" /\ ~call'.ret)
        => (collection' = collection /\ document_metadata' = document_metadata)]_vars

\* C4: search_documents raises nothing; with an empty index, a failing
\* embedding or a failing query it returns no results, and chat goes on to
\* call the language model with the user message as it came.
C4_SearchFailureMeansNoContext ==
    (/\ last_chat.op = "chat"
     /\ last_chat.user_message # <<>>
     /\ (last_chat.search_fault # "none" \/ last_chat.index_empty))
    => /\ last_chat.relevant_docs = 0
       /\ last_chat.llm_called
       /\ last_chat.llm_last =
            [role |-> "user",
             content |-> [context |-> <<>>, question |-> last_chat.user_message]]
       /\ last_chat.status = 200 =>
            /\ Len(conversation_history) >= 3
            /\ conversation_history[Len(conversation_history) - 1] = last_chat.llm_last

C4_Witness ==
    /\ last_chat.op = "chat"
    /\ last_chat.search_fault = "embed"
    /\ ~last_chat.index_empty
    /\ last_chat.llm_called
    /\ last_chat.status = 200

\* C10: the history is the system message followed by user and assistant
\* messages in turn, each user message with its reply; clear leaves the
\* system message alone.
C10_HistoryAlternates ==
    /\ conversation_history[1] = SystemMessage
    /\ Len(conversation_history) % 2 = 1
    /\ \A i \in 2..Len(conversation_history) :
        conversation_history[i].role = IF i % 2 = 0 THEN "user" ELSE "assistant"
    /\ last_chat.op = "clear" => conversation_history = <<SystemMessage>>
====
